---- MODULE Spec2Model ----
(***************************************************************************)
(* literate-to-md.js: a recursive tree walker (literateToMd) that hands    *)
(* every regular file to a converter (literateToMdFile), which rewrites    *)
(* the delimiters of a literate source file into Markdown code fences.     *)
(*                                                                         *)
(* Texts are sequences of atoms.  An atom is a line break ("\n" or         *)
(* "\r\n"), the open or the close delimiter of a configuration entry, the  *)
(* three backticks (the atom Backticks), a language tag, or "x" or "y": a  *)
(* stretch of other text that holds no line break, no delimiter and no     *)
(* backticks.  The converter does not tell "x" from "y"; a literate text   *)
(* is written with "y" for its prose and "x" for its code, so that each    *)
(* can be found again in the output.                                       *)
(* The regular expressions of the converter are built from escape(open)    *)
(* and escape(close), so they match the delimiters literally; here that is *)
(* equality of atoms.                                                      *)
(*                                                                         *)
(* Paths are sequences of names; a name is a sequence of pieces such as    *)
(* <<"a", ".", "lean">>, so that path.parse has a dot to look for.         *)
(***************************************************************************)
EXTENDS Integers, Sequences, FiniteSets, TLC

\* Bounds of the model.
MaxLen == 5
MaxPart == 3
MaxLines == 4
MaxEntries == 3
MaxElems == 3

\* ------------------------------------------------------------- atoms

LF == "\n"
CRLF == "\r\n"
Backticks == "BACKTICKS"
Other == "x"
ProseWord == "y"
Undefined == "undefined"

\* \r?\n
IsLineBreak(a) == a \in {LF, CRLF}

\* ------------------------------------------------------ configuration

\* The table loaded from literate-to-md.json: an entry for the sources of the
\* repository (src/index.lean opens prose with /-* and closes it with *-/),
\* without lang, and an entry that sets lang.
Config ==
  [lean |-> [open |-> "/-*", close |-> "*-/", lang |-> Undefined, truthy |-> TRUE],
   foo  |-> [open |-> "/*",  close |-> "*/",  lang |-> "c",       truthy |-> TRUE]]

\* Property names every JavaScript object inherits from Object.prototype.
ObjectPrototype == {"constructor", "toString"}

\* config[key] where key names no own property and nothing inherited.
NoConfig ==
  [open |-> Undefined, close |-> Undefined, lang |-> Undefined, truthy |-> FALSE]

\* config[key] where key is inherited: a function or object (truthy) that has
\* none of the properties open, close, lang.
InheritedValue ==
  [open |-> Undefined, close |-> Undefined, lang |-> Undefined, truthy |-> TRUE]

\* config[key]: JavaScript property access on the object parsed from JSON.
ConfigGet(key) ==
  IF key \in DOMAIN Config THEN Config[key]
  ELSE IF key \in ObjectPrototype THEN InheritedValue
  ELSE NoConfig

\* ---------------------------------------------------------------- paths

\* path.parse(p): dir, and the base name split at its last dot (a dot that
\* starts the base name does not count).
PathParse(p) ==
  LET base == p[Len(p)]
      dots == {i \in 2..Len(base) : base[i] = "."}
      k == CHOOSE i \in dots : \A j \in dots : j <= i
  IN  [dir  |-> SubSeq(p, 1, Len(p) - 1),
       name |-> IF dots = {} THEN base ELSE SubSeq(base, 1, k - 1),
       ext  |-> IF dots = {} THEN <<>> ELSE SubSeq(base, k, Len(base))]

\* path.format({ dir, name, ext })
PathFormat(dir, name, ext) == Append(dir, name \o ext)

\* ext.substr(1) as a property key: the extension without its dot.
Substr1(ext) == IF Len(ext) <= 1 THEN "" ELSE ext[2]

\* ------------------------------------------------------------ converter

\* The number of consecutive line breaks of s from index i on.
RECURSIVE BreakRun(_, _)
BreakRun(s, i) ==
  IF i >= 1 /\ i <= Len(s) /\ IsLineBreak(s[i]) THEN 1 + BreakRun(s, i + 1) ELSE 0

\* The number of consecutive line breaks of s from index i backwards.
RECURSIVE BreakRunBack(_, _)
BreakRunBack(s, i) ==
  IF i >= 1 /\ i <= Len(s) /\ IsLineBreak(s[i]) THEN 1 + BreakRunBack(s, i - 1) ELSE 0

\* The length of the match of ^(\r?\n)*open(\r?\n)+ in s, 0 when there is none.
StartMatch(s, open) ==
  LET a == BreakRun(s, 1)
      b == BreakRun(s, a + 2)
  IN  IF a + 1 <= Len(s) /\ s[a + 1] = open /\ b >= 1 THEN a + 1 + b ELSE 0

\* The index where the match of (\r?\n)+close(\r?\n)*$ starts in s, 0 when
\* there is none.
EndMatch(s, close) ==
  LET p == Len(s) - BreakRunBack(s, Len(s))
      a == BreakRunBack(s, p - 1)
  IN  IF p >= 1 /\ s[p] = close /\ a >= 1 THEN p - a ELSE 0

\* The length of the match of (\r?\n)+delim(\r?\n)+ at index i of s, 0 when
\* there is none.
InteriorMatch(s, i, delim) ==
  LET a == BreakRun(s, i)
      b == BreakRun(s, i + a + 1)
  IN  IF a >= 1 /\ i + a <= Len(s) /\ s[i + a] = delim /\ b >= 1 THEN a + 1 + b ELSE 0

\* s.replace(new RegExp(`(\\r?\\n)+${delim}(\\r?\\n)+`, "g"), by): the
\* matches are taken left to right and do not overlap.  From[i] is the
\* result for s from index i on.
ReplaceAll(s, delim, by) ==
  LET From[i \in 1..(Len(s) + 1)] ==
        IF i > Len(s) THEN <<>>
        ELSE IF InteriorMatch(s, i, delim) > 0
             THEN by \o From[i + InteriorMatch(s, i, delim)]
             ELSE <<s[i]>> \o From[i + 1]
  IN  From[1]

\* Mutant: the lang of the entry is ignored.
EffectiveLangExtensionOnly(langConfig, ext) == Substr1(ext)

\* const lang = langConfig.lang || ext.substr(1)
EffectiveLang(langConfig, ext) ==
  IF langConfig.lang \notin {Undefined, ""} THEN langConfig.lang ELSE Substr1(ext)

\* Mutant: the leading delimiter is not looked for.
StartHandlingAlwaysFence(contents, lang, open, eol) == <<Backticks, lang, eol>> \o contents

\* Leading delimiter: strip it, or open a fence.
StartHandling(contents, lang, open, eol) ==
  IF StartMatch(contents, open) > 0
  THEN SubSeq(contents, StartMatch(contents, open) + 1, Len(contents))
  ELSE <<Backticks, lang, eol>> \o contents

\* Trailing delimiter: strip it, or close the fence.
EndHandling(contents, close, eol) ==
  IF EndMatch(contents, close) > 0
  THEN SubSeq(contents, 1, EndMatch(contents, close) - 1)
  ELSE contents \o <<eol, Backticks>>

\* Mutant: the second replace, of the open delimiters, is left out.
InteriorHandlingCloseOnly(contents, lang, open, close, eol) ==
  ReplaceAll(contents, close, <<eol, eol, Backticks, lang, eol>>)

\* Interior delimiters: close becomes an opening fence, then open becomes a
\* closing fence.
InteriorHandling(contents, lang, open, close, eol) ==
  CHOOSE opened \in
    {ReplaceAll(closed, open, <<eol, Backticks, eol, eol>>) :
       closed \in {ReplaceAll(contents, close, <<eol, eol, Backticks, lang, eol>>)}} : TRUE

\* The text literateToMdFile writes for the text it read: the leading, the
\* trailing and the interior handling, each on the result of the one before.
Rewrite(contents, langConfig, ext, eol) ==
  LET lang == EffectiveLang(langConfig, ext)
  IN  CHOOSE rewritten \in
        {InteriorHandling(ended, lang, langConfig.open, langConfig.close, eol) :
           ended \in {EndHandling(started, langConfig.close, eol) :
             started \in {StartHandling(contents, lang, langConfig.open, eol)}}} : TRUE

\* ----------------------------------------------------------------- state

VARIABLES
  eol,       \* os.EOL of the platform
  inRoot,    \* the input path of the top-level call
  outRoot,   \* the output path of the top-level call
  dirs,      \* input file system: directory path -> the names in it
  files,     \* input file system: regular file path -> its text
  calls,     \* the calls of literateToMd, by path relative to the roots
  outDirs,   \* output file system: the directories that exist
  outFiles,  \* output file system: file path -> its text
  log,       \* the progress lines printed, with how often each was printed
  writes     \* history: every completed fs.writeFile, as [input, output]

vars == <<eol, inRoot, outRoot, dirs, files, calls, outDirs, outFiles, log, writes>>

\* The parameters of the call at rel: path.join(input, i), path.join(output, i).
InputOf(rel) == inRoot \o rel
OutputOf(rel) == outRoot \o rel

Front(s) == SubSeq(s, 1, Len(s) - 1)

\* The calls a directory's call started, one per entry.
ChildrenOf(c, rel) == {r \in DOMAIN c : Len(r) = Len(rel) + 1 /\ Front(r) = rel}

\* Mutant: a call that awaits its children resolves with the first child
\* that resolves.
RECURSIVE SettleWithFirst(_, _, _)
SettleWithFirst(c, rel, outcome) ==
  LET c1 == [c EXCEPT ![rel].pc = outcome]
  IN  IF rel = <<>> THEN c1
      ELSE IF c1[Front(rel)].pc # "all" THEN c1
      ELSE SettleWithFirst(c1, Front(rel), outcome)

\* The call at rel settles.  A call that awaits Promise.all of its children
\* is rejected as soon as one child is rejected, and resolves once all have.
RECURSIVE Settle(_, _, _)
Settle(c, rel, outcome) ==
  LET c1 == [c EXCEPT ![rel].pc = outcome]
  IN  IF rel = <<>> THEN c1
      ELSE IF c1[Front(rel)].pc # "all" THEN c1
      ELSE IF outcome = "rejected" THEN Settle(c1, Front(rel), "rejected")
      ELSE IF \A r \in ChildrenOf(c1, Front(rel)) : c1[r].pc = "resolved"
           THEN Settle(c1, Front(rel), "resolved")
      ELSE c1

NewCall(output) ==
  [pc |-> "stat", output |-> output, langConfig |-> NoConfig, contents |-> <<>>, err |-> ""]

\* config[ext.substr(1)] for the call at rel: the extension is the one of
\* the OUTPUT path the call was given.
LangConfigOf(rel) == ConfigGet(Substr1(PathParse(OutputOf(rel)).ext))

\* ------------------------------------------------------------- actions

\* fs.stat(input) resolves with a directory: fs.readdir(input) is awaited.
StatDirectory(rel) ==
  /\ calls[rel].pc = "stat"
  /\ InputOf(rel) \in DOMAIN dirs
  /\ calls' = [calls EXCEPT ![rel].pc = "readdir"]
  /\ UNCHANGED <<eol, inRoot, outRoot, dirs, files, outDirs, outFiles, log, writes>>

\* fs.stat(input) resolves with a regular file: literateToMdFile runs up to
\* its first await, fs.mkdir, or returns at once when config has no entry.
StatFile(rel) ==
  /\ calls[rel].pc = "stat"
  /\ InputOf(rel) \in DOMAIN files
  /\ LET found == [calls EXCEPT ![rel].langConfig = LangConfigOf(rel)]
     IN  calls' = IF LangConfigOf(rel).truthy
                  THEN [found EXCEPT ![rel].pc = "mkdir"]
                  ELSE Settle(found, rel, "resolved")
  /\ UNCHANGED <<eol, inRoot, outRoot, dirs, files, outDirs, outFiles, log, writes>>

\* fs.readdir(input) resolves: one call per entry is started (each runs up
\* to its fs.stat) and Promise.all of them is awaited.
Readdir(rel) ==
  /\ calls[rel].pc = "readdir"
  /\ LET entries == dirs[InputOf(rel)]
         started == [r \in DOMAIN calls \cup {Append(rel, i) : i \in entries} |->
                       IF r \in DOMAIN calls THEN calls[r] ELSE NewCall(OutputOf(r))]
     IN  calls' = IF entries = {} THEN Settle(calls, rel, "resolved")
                  ELSE [started EXCEPT ![rel].pc = "all"]
  /\ UNCHANGED <<eol, inRoot, outRoot, dirs, files, outDirs, outFiles, log, writes>>

\* fs.mkdir(dir, { recursive: true }) resolves; output gets the extension .md
\* and fs.readFile(input) is awaited.
Mkdir(rel) ==
  /\ calls[rel].pc = "mkdir"
  /\ LET parsed == PathParse(calls[rel].output)
     IN  /\ outDirs' = outDirs \cup {SubSeq(parsed.dir, 1, n) : n \in 1..Len(parsed.dir)}
         /\ calls' = [calls EXCEPT ![rel].pc = "readFile",
                                   ![rel].output = PathFormat(parsed.dir, parsed.name, <<".", "md">>)]
  /\ UNCHANGED <<eol, inRoot, outRoot, dirs, files, outFiles, log, writes>>

\* fs.readFile(input) resolves: the text is rewritten and fs.writeFile is
\* awaited.  escape(undefined) throws a TypeError.
ReadFile(rel) ==
  /\ calls[rel].pc = "readFile"
  /\ LET langConfig == calls[rel].langConfig
         ext == PathParse(OutputOf(rel)).ext
     IN  calls' = IF Undefined \in {langConfig.open, langConfig.close}
                  THEN Settle([calls EXCEPT ![rel].err = "TypeError"], rel, "rejected")
                  ELSE [calls EXCEPT ![rel].pc = "writeFile",
                                     ![rel].contents = Rewrite(files[InputOf(rel)], langConfig, ext, eol)]
  /\ UNCHANGED <<eol, inRoot, outRoot, dirs, files, outDirs, outFiles, log, writes>>

\* One more progress line.
Printed(l, line) ==
  [k \in DOMAIN l \cup {line} |-> IF k \in DOMAIN l THEN l[k] + (IF k = line THEN 1 ELSE 0) ELSE 1]

\* fs.writeFile(output, contents) resolves; the progress line is printed and
\* the call returns.
WriteFile(rel) ==
  /\ calls[rel].pc = "writeFile"
  /\ LET output == calls[rel].output
         line == [input |-> InputOf(rel), output |-> output]
     IN  /\ outFiles' = [p \in DOMAIN outFiles \cup {output} |->
                           IF p = output THEN calls[rel].contents ELSE outFiles[p]]
         /\ writes' = writes \cup {line}
         /\ log' = Printed(log, line)
  /\ calls' = Settle(calls, rel, "resolved")
  /\ UNCHANGED <<eol, inRoot, outRoot, dirs, files, outDirs>>

\* The progress line printed without awaiting fs.writeFile: it is there
\* although the write is rejected.
RejectPrintsUnawaited(rel) ==
  /\ calls[rel].pc \in {"stat", "readdir", "mkdir", "readFile", "writeFile"}
  /\ calls' = Settle([calls EXCEPT ![rel].err = calls[rel].pc], rel, "rejected")
  /\ log' = IF calls[rel].pc = "writeFile"
            THEN Printed(log, [input |-> InputOf(rel), output |-> calls[rel].output])
            ELSE log
  /\ UNCHANGED <<eol, inRoot, outRoot, dirs, files, outDirs, outFiles, writes>>

\* The fs operation the call awaits rejects: the call is rejected.  A
\* rejected fs.writeFile is taken to leave the output file system as it was.
\* Nothing handles the rejection of the top-level call; whether the process
\* then goes on with the pending calls or stops depends on the Node version,
\* and a run of Spec may do either.
Reject(rel) ==
  /\ calls[rel].pc \in {"stat", "readdir", "mkdir", "readFile", "writeFile"}
  /\ calls' = Settle([calls EXCEPT ![rel].err = calls[rel].pc], rel, "rejected")
  /\ UNCHANGED <<eol, inRoot, outRoot, dirs, files, outDirs, outFiles, log, writes>>

\* ---------------------------------------------------------- file systems

SrcName == <<"src">>
MdName == <<"md">>
DirName == <<"d">>
FileNames ==
  {<<"a", ".", "lean">>, <<"a", ".", "foo">>, <<"b", ".", "LEAN">>, <<"c">>,
   <<"p", ".", "constructor">>}

\* The text of the files of a walked tree.
SampleText == <<"/*", LF, Other, LF, "*/", LF, Other>>

IsDirRel(rel) == \A i \in 1..Len(rel) : rel[i] = DirName

\* A tree is the set of its entries, as paths relative to the root
\* directory; the entries named d are directories.
Grow(T) ==
  {T \cup {Append(p, n)} : p \in {q \in T \cup {<<>>} : IsDirRel(q)},
                           n \in FileNames \cup {DirName}}

RECURSIVE TreesUpTo(_)
TreesUpTo(n) ==
  IF n = 0 THEN {{}}
  ELSE TreesUpTo(n - 1) \cup UNION {Grow(T) : T \in TreesUpTo(n - 1)}

NoCalls == (<<>> :> NewCall(outRoot))

\* literateToMd(input, output) is called on a directory tree.
InitTree ==
  \E T \in TreesUpTo(MaxEntries) :
    /\ inRoot = <<SrcName>>
    /\ outRoot = <<MdName>>
    /\ dirs = [p \in {<<SrcName>> \o r : r \in {q \in T \cup {<<>>} : IsDirRel(q)}} |->
                 {n \in FileNames \cup {DirName} :
                    Append(SubSeq(p, 2, Len(p)), n) \in T}]
    /\ files = [p \in {<<SrcName>> \o r : r \in {q \in T : ~IsDirRel(q)}} |-> SampleText]

\* literateToMd(input, output) is called on a regular file, with any output
\* name.
InitFile ==
  \E n \in FileNames, m \in FileNames \cup {<<"out", ".", "md">>} :
    /\ inRoot = <<SrcName, n>>
    /\ outRoot = <<MdName, m>>
    /\ dirs = [p \in {} |-> {}]
    /\ files = [p \in {inRoot} |-> SampleText]

InitRest ==
  /\ eol \in {LF, CRLF}
  /\ calls = NoCalls
  /\ outDirs = {}
  /\ outFiles = [p \in {} |-> <<>>]
  /\ log = [p \in {} |-> 0]
  /\ writes = {}

Init == (InitTree \/ InitFile) /\ InitRest

Next ==
  \/ \E rel \in DOMAIN calls : StatDirectory(rel)
  \/ \E rel \in DOMAIN calls : StatFile(rel)
  \/ \E rel \in DOMAIN calls : Readdir(rel)
  \/ \E rel \in DOMAIN calls : Mkdir(rel)
  \/ \E rel \in DOMAIN calls : ReadFile(rel)
  \/ \E rel \in DOMAIN calls : WriteFile(rel)
  \/ \E rel \in DOMAIN calls : Reject(rel)

\* The walker: literateToMd on a tree or on a file, every fs operation may
\* reject.
Spec == Init /\ [][Next]_vars

\* The walker under the scheduling of the event loop: an fs operation that
\* is awaited completes.
FairSpec == Spec /\ WF_vars(Next)

\* ------------------------------------------------------- converter runs

\* Every text of at most n atoms over the alphabet A.
TextsUpTo(A, n) == UNION {[1..k -> A] : k \in 0..n}

\* Text without delimiters, not empty, that neither starts nor ends with a
\* line break.
IsPlain(t) ==
  /\ Len(t) >= 1
  /\ \A i \in 1..Len(t) : t[i] \in {Other, LF, CRLF}
  /\ t[1] = Other /\ t[Len(t)] = Other

PlainTexts == {t \in TextsUpTo({Other, LF, CRLF}, MaxPart) : IsPlain(t)}

\* open, line break, prose, line break, close, line break, code.
ProseCodeTexts(open, close) ==
  {<<open, b[1]>> \o prose \o <<b[2], close, b[3]>> \o code :
     b \in [1..3 -> {LF, CRLF}], prose \in PlainTexts, code \in PlainTexts}

\* At most MaxLines lines, each a delimiter or other text, joined by one kind
\* of line break.
RECURSIVE Join(_, _)
Join(lines, break) ==
  IF Len(lines) <= 1 THEN lines
  ELSE <<lines[1], break>> \o Join(Tail(lines), break)

LineTexts(open, close) ==
  {Join(lines, b) : lines \in TextsUpTo({open, close, Other}, MaxLines), b \in {LF, CRLF}}

\* One or more line breaks.
Seps == {<<LF>>, <<CRLF, LF>>}

\* A code text, or a prose block: open, line break(s), prose, line break(s),
\* close.
Elements(open, close) ==
  {<<Other>>, <<Other, LF, Other>>}
    \cup {<<open>> \o s1 \o <<ProseWord>> \o s2 \o <<close>> : s1 \in Seps, s2 \in Seps}

\* The literate texts of at most n elements, separated by line breaks.
RECURSIVE LiterateTexts(_, _, _)
LiterateTexts(open, close, n) ==
  IF n <= 1 THEN Elements(open, close)
  ELSE LET shorter == LiterateTexts(open, close, n - 1)
       IN  shorter \cup {t \o s \o e : t \in shorter, s \in Seps, e \in Elements(open, close)}

\* literateToMdFile is called on one file of a configured extension that
\* holds any text.
ConvInit ==
  /\ \E e \in DOMAIN Config :
       /\ inRoot = <<SrcName, <<"a", ".", e>>>>
       /\ outRoot = <<MdName, <<"a", ".", e>>>>
       /\ \E text \in TextsUpTo({Config[e].open, Config[e].close, LF, CRLF, Other}, MaxLen)
                      \cup ProseCodeTexts(Config[e].open, Config[e].close)
                      \cup LineTexts(Config[e].open, Config[e].close)
                      \cup LiterateTexts(Config[e].open, Config[e].close, MaxElems) :
            files = [p \in {inRoot} |-> text]
  /\ dirs = [p \in {} |-> {}]
  /\ InitRest

ConvNext ==
  \/ \E rel \in DOMAIN calls : StatFile(rel)
  \/ \E rel \in DOMAIN calls : Mkdir(rel)
  \/ \E rel \in DOMAIN calls : ReadFile(rel)
  \/ \E rel \in DOMAIN calls : WriteFile(rel)

\* The converter on every text.
ConvSpec == ConvInit /\ [][ConvNext]_vars

\* ------------------------------------------------- reading an output

\* A line of three backticks followed by the language tag.
OpeningFenceAt(out, i, tag) ==
  /\ out[i] = Backticks
  /\ i = 1 \/ IsLineBreak(out[i - 1])
  /\ i + 1 <= Len(out) /\ out[i + 1] = tag
  /\ i + 2 > Len(out) \/ IsLineBreak(out[i + 2])

\* A line of exactly three backticks.
ClosingFenceAt(out, i) ==
  /\ out[i] = Backticks
  /\ i = 1 \/ IsLineBreak(out[i - 1])
  /\ i = Len(out) \/ IsLineBreak(out[i + 1])

OpeningFences(out, tag) == {i \in 1..Len(out) : OpeningFenceAt(out, i, tag)}
ClosingFences(out) == {i \in 1..Len(out) : ClosingFenceAt(out, i)}

\* The extension of a path, without its dot.
ExtensionOf(path) == Substr1(PathParse(path).ext)

\* The language tag the table gives the files of extension e: lang if the
\* entry has one, otherwise the extension.
TagOf(e) == IF Config[e].lang # Undefined THEN Config[e].lang ELSE e

\* The conversions that have written their output: for each, the entry of
\* the input file's extension, the text read and the text written.
Conversions ==
  {[text |-> files[w.input], out |-> outFiles[w.output],
    open |-> Config[ExtensionOf(w.input)].open,
    close |-> Config[ExtensionOf(w.input)].close,
    tag |-> TagOf(ExtensionOf(w.input))] :
     w \in {v \in writes : ExtensionOf(v.input) \in DOMAIN Config}}

HasDelimiter(t, open, close) == \E i \in 1..Len(t) : t[i] \in {open, close}

\* ---------------------------------------------------------------- claims

\* C1: in every output the opening fence lines (three backticks and the
\* language tag) are as many as the closing fence lines (three backticks).
C1_FencesBalanced ==
  \A c \in Conversions :
    Cardinality(OpeningFences(c.out, c.tag)) = Cardinality(ClosingFences(c.out))

\* C2: a text without delimiters is written as one opening fence line with
\* the language tag (lang of the entry, otherwise the extension), the text
\* unchanged, one closing fence line; the output has exactly one opening and
\* one closing fence.
C2_NoDelimiterOneFence ==
  \A c \in Conversions :
    ~HasDelimiter(c.text, c.open, c.close) =>
      /\ c.out = <<Backticks, c.tag, eol>> \o c.text \o <<eol, Backticks>>
      /\ OpeningFences(c.out, c.tag) = {1}
      /\ ClosingFences(c.out) = {Len(c.out)}

\* C2's case: a text of several lines without delimiters has been converted,
\* under an entry that has a lang.
C2_Witness ==
  \E c \in Conversions :
    /\ ~HasDelimiter(c.text, c.open, c.close)
    /\ Len(c.text) >= 3
    /\ \E i \in 1..Len(c.text) : IsLineBreak(c.text[i])
    /\ c.tag = "c"

\* The text c.text is open, line break, prose, line break, close, line
\* break, code, with the close delimiter at index p.
ProseCodeAt(c, p) ==
  /\ p >= 5 /\ p + 2 <= Len(c.text)
  /\ c.text[1] = c.open /\ IsLineBreak(c.text[2])
  /\ IsPlain(SubSeq(c.text, 3, p - 2))
  /\ IsLineBreak(c.text[p - 1]) /\ c.text[p] = c.close /\ IsLineBreak(c.text[p + 1])
  /\ IsPlain(SubSeq(c.text, p + 2, Len(c.text)))

\* C3: for the text open, line break, prose, line break, close, line break,
\* code (prose and code without delimiters, neither starting nor ending with
\* a line break) the output starts with the prose, has exactly one opening
\* fence, between the prose and the code, and exactly one closing fence,
\* after the code, and holds no delimiter.
C3_ProseThenCode ==
  \A c \in Conversions :
    \A p \in 1..Len(c.text) :
      ProseCodeAt(c, p) =>
        LET prose == SubSeq(c.text, 3, p - 2)
            code == SubSeq(c.text, p + 2, Len(c.text))
        IN  /\ c.out = prose \o <<eol, eol, Backticks, c.tag, eol>> \o code \o <<eol, Backticks>>
            /\ OpeningFences(c.out, c.tag) = {Len(prose) + 3}
            /\ ClosingFences(c.out) = {Len(c.out)}
            /\ ~HasDelimiter(c.out, c.open, c.close)

\* C3's case: a text of that shape, with prose of several lines, has been
\* converted.
C3_Witness ==
  \E c \in Conversions :
    \E p \in 1..Len(c.text) :
      /\ ProseCodeAt(c, p)
      /\ p = 7 /\ IsLineBreak(c.text[4])

\* The call at rel is the call of a regular file.
IsFileCall(rel) == InputOf(rel) \in DOMAIN files

\* C4: a regular file whose extension has no entry in the table is skipped:
\* its call never gets to mkdir, readFile or writeFile, fails only if its
\* stat does, writes nothing and prints nothing; and the walk of a directory
\* that holds one configured and one unconfigured file ends with exactly one
\* output file.
C4_UnconfiguredSkipped ==
  /\ \A rel \in DOMAIN calls :
       IsFileCall(rel) /\ ExtensionOf(InputOf(rel)) \notin DOMAIN Config =>
         /\ calls[rel].pc \in {"stat", "resolved", "rejected"}
         /\ calls[rel].pc = "rejected" => calls[rel].err = "stat"
         /\ \A w \in writes : w.input # InputOf(rel)
         /\ \A l \in DOMAIN log : l.input # InputOf(rel)
  /\ ( /\ DOMAIN dirs = {inRoot}
       /\ Cardinality(DOMAIN files) = 2
       /\ Cardinality({f \in DOMAIN files : ExtensionOf(f) \in DOMAIN Config}) = 1
       /\ calls[<<>>].pc = "resolved" )
     => Cardinality(DOMAIN outFiles) = 1

\* C5: in no output is a closing fence followed by an opening fence with
\* only line breaks between them.
C5_NoAdjacentFences ==
  \A c \in Conversions :
    \A i \in ClosingFences(c.out), j \in OpeningFences(c.out, c.tag) :
      ~(i < j /\ \A k \in (i + 1)..(j - 1) : IsLineBreak(c.out[k]))

\* C6: a call is rejected only when every call below it has settled.
C6_FailTogether ==
  \A rel \in DOMAIN calls, r \in DOMAIN calls :
    ( /\ Len(r) > Len(rel)
      /\ SubSeq(r, 1, Len(rel)) = rel
      /\ calls[rel].pc = "rejected" )
    => calls[r].pc \in {"resolved", "rejected"}

\* C7: no output path is written by the conversions of two input files.
C7_OneWriterPerOutput ==
  \A v \in writes, w \in writes : v.output = w.output => v.input = w.input

\* Everything below the walked root has been dealt with: every call has
\* resolved, every configured file is written, every other file is skipped.
SubtreeDone ==
  \A p \in DOMAIN dirs \cup DOMAIN files :
    LET rel == SubSeq(p, Len(inRoot) + 1, Len(p))
    IN  /\ rel \in DOMAIN calls
        /\ calls[rel].pc = "resolved"
        /\ p \in DOMAIN files =>
             IF ExtensionOf(p) \in DOMAIN Config
             THEN \E w \in writes : w.input = p /\ w.output \in DOMAIN outFiles
             ELSE \A w \in writes : w.input # p

SomeOperationFailed == \E rel \in DOMAIN calls : calls[rel].err # ""

\* C8: the call on a directory resolves only when everything below it is
\* done, and unless an operation fails it does resolve.
C8_JoinOnCompletion ==
  /\ []((inRoot \in DOMAIN dirs /\ calls[<<>>].pc = "resolved") => SubtreeDone)
  /\ <>(calls[<<>>].pc = "resolved" \/ SomeOperationFailed)

\* C8's case: the walk of a tree with a converted file two directories down
\* has resolved.
C8_Witness ==
  /\ inRoot \in DOMAIN dirs
  /\ calls[<<>>].pc = "resolved"
  /\ \E w \in writes : Len(w.input) >= 3

\* literateToMdFile has run for the call at rel.
Visited(rel) ==
  /\ IsFileCall(rel)
  /\ \/ calls[rel].pc \in {"mkdir", "readFile", "writeFile", "resolved"}
     \/ calls[rel].pc = "rejected" /\ calls[rel].err # "stat"

\* C9: the table entry a conversion uses, or its absence, is the one of the
\* input file's extension.
C9_ConfigOfInputExtension ==
  \A rel \in DOMAIN calls :
    Visited(rel) => calls[rel].langConfig = ConfigGet(ExtensionOf(InputOf(rel)))

\* C10: no output holds an open or close delimiter alone on its line between
\* two line breaks.
C10_NoDelimiterLine ==
  \A c \in Conversions :
    \A i \in 2..(Len(c.out) - 1) :
      ~(c.out[i] \in {c.open, c.close} /\ IsLineBreak(c.out[i - 1]) /\ IsLineBreak(c.out[i + 1]))

\* The progress lines printed for the input of the call at rel.
LinesOf(rel) == {l \in DOMAIN log : l.input = InputOf(rel)}

\* The call at rel has converted its file and returned.
HasWritten(rel) ==
  /\ IsFileCall(rel)
  /\ calls[rel].pc = "resolved"
  /\ calls[rel].langConfig.truthy

\* C11: at every moment of a run, a file whose write has completed has
\* exactly one progress line, input -> output, printed once, and its output
\* file is there; every other file (skipped, failed at stat, mkdir, read or
\* write, or not yet written) has no progress line.
C11_OneLinePerWrittenFile ==
  \A rel \in DOMAIN calls :
    IF HasWritten(rel)
    THEN LET line == [input |-> InputOf(rel), output |-> calls[rel].output]
         IN  /\ LinesOf(rel) = {line}
             /\ log[line] = 1
             /\ line.output \in DOMAIN outFiles
    ELSE LinesOf(rel) = {}

\* C11's case: in one walk a file is written, the write of another is
\* rejected, and a third is skipped.
C11_Witness ==
  \E r1 \in DOMAIN calls, r2 \in DOMAIN calls, r3 \in DOMAIN calls :
    /\ HasWritten(r1)
    /\ calls[r2].pc = "rejected" /\ calls[r2].err = "writeFile"
    /\ IsFileCall(r3) /\ calls[r3].pc = "resolved" /\ ~calls[r3].langConfig.truthy

\* Reading a literate text atom by atom: where the reader is after atom a,
\* having been at q.  "gap" is the line breaks after a code line or after a
\* prose block, "bad" is a text that is not literate.
LiterateStep(q, a, open, close) ==
  CASE q = "begin" ->
         IF a = Other THEN "code" ELSE IF a = open THEN "opened" ELSE "bad"
    [] q = "code" ->
         IF a = Other THEN "code" ELSE IF IsLineBreak(a) THEN "gap" ELSE "bad"
    [] q = "gap" ->
         IF IsLineBreak(a) THEN "gap"
         ELSE IF a = Other THEN "code" ELSE IF a = open THEN "opened" ELSE "bad"
    [] q = "opened" ->
         IF IsLineBreak(a) THEN "openGap" ELSE "bad"
    [] q = "openGap" ->
         IF IsLineBreak(a) THEN "openGap" ELSE IF a = ProseWord THEN "prose" ELSE "bad"
    [] q = "prose" ->
         IF a = ProseWord THEN "prose" ELSE IF IsLineBreak(a) THEN "proseGap" ELSE "bad"
    [] q = "proseGap" ->
         IF IsLineBreak(a) THEN "proseGap"
         ELSE IF a = ProseWord THEN "prose" ELSE IF a = close THEN "closed" ELSE "bad"
    [] q = "closed" ->
         IF IsLineBreak(a) THEN "gap" ELSE "bad"
    [] OTHER -> "bad"

\* The text t is a sequence of code texts (of "x" and line breaks) and prose
\* blocks (open, line breaks, prose of "y" and line breaks, line breaks,
\* close), separated by line breaks; it starts and ends in either.
IsLiterate(t, open, close) ==
  LET After[i \in 0..Len(t)] ==
        IF i = 0 THEN "begin" ELSE LiterateStep(After[i - 1], t[i], open, close)
  IN  After[Len(t)] \in {"code", "closed"}

IsWord(a) == a \in {Other, ProseWord}

\* The opening fences before index i of the output that are not yet closed.
FenceDepth(out, tag, i) ==
  Cardinality({j \in OpeningFences(out, tag) : j < i})
    - Cardinality({j \in ClosingFences(out) : j < i})

\* C12: the output of a literate text is well formed: every three backticks
\* are an opening fence line with the language tag or a closing fence line;
\* the fences alternate opening, closing, starting with an opening one and
\* ending with a closing one; every code text is inside a fence pair, every
\* prose text is outside all of them, and the code and prose texts are those
\* of the input, in their order.
C12_LiterateWellFormed ==
  \A c \in Conversions :
    IsLiterate(c.text, c.open, c.close) =>
      /\ \A i \in 1..Len(c.out) :
           /\ c.out[i] = Backticks =>
                i \in OpeningFences(c.out, c.tag) \cup ClosingFences(c.out)
           /\ i \in OpeningFences(c.out, c.tag) => FenceDepth(c.out, c.tag, i) = 0
           /\ i \in ClosingFences(c.out) => FenceDepth(c.out, c.tag, i) = 1
           /\ c.out[i] = Other => FenceDepth(c.out, c.tag, i) = 1
           /\ c.out[i] = ProseWord => FenceDepth(c.out, c.tag, i) = 0
      /\ Cardinality(OpeningFences(c.out, c.tag)) = Cardinality(ClosingFences(c.out))
      /\ SelectSeq(c.out, IsWord) = SelectSeq(c.text, IsWord)

\* C12's case: a literate text of code, prose block, code, with several line
\* breaks around a delimiter, has been converted.
C12_Witness ==
  \E c \in Conversions :
    /\ IsLiterate(c.text, c.open, c.close)
    /\ c.text[1] = Other /\ c.text[Len(c.text)] = Other
    /\ \E i \in 2..(Len(c.text) - 2) :
         /\ c.text[i] = c.close
         /\ IsLineBreak(c.text[i + 1]) /\ IsLineBreak(c.text[i + 2])
    /\ Cardinality(OpeningFences(c.out, c.tag)) = 2

====
